---- MODULE Spec2Model ----
(***************************************************************************)
(* Sheet Metal Brazing companion: the engineering-equation solver          *)
(* (pages/5_Engineering_Equations.py) and the equation registry            *)
(* (app_data.py).                                                          *)
(*                                                                         *)
(* Numbers.  The page hands Python floats to Sympy.  The model draws the   *)
(* inputs from small integers and computes with exact rationals <<n, d>>   *)
(* (d > 0, lowest terms); a square root that is not rational is kept as a  *)
(* surd.  Sympy's zoo (1/0) and nan (0*zoo) are kept as separate states of *)
(* the substituted term, because solve_equation's result depends on them.  *)
(***************************************************************************)
EXTENDS Integers, Sequences, FiniteSets, TLC

VARIABLES
  eq,         \* index in the catalog of the equation being solved
  solve_for,  \* name of the variable chosen as the unknown
  inputs,     \* the inputs dict: variable name -> float <<n, d>> or None
  outcome,    \* result of the last solve_equation call: solutions or exception
  shown,      \* what the page displays: "loading" (script not run yet),
              \* "exception" (script stopped), "none", "success", "warning", "error"
  prev,       \* the caller's previous request and outcome (round trips)
  registry,   \* app_data.EQUATIONS, the list every session of the process shares
  callers     \* per concurrent caller: the solve_equation call it is running

vars == <<eq, solve_for, inputs, outcome, shown, prev, registry, callers>>

(* Largest input value drawn; inputs range over -1 .. MaxVal. *)
MaxVal == 2

-----------------------------------------------------------------------------
(* Exact rational arithmetic (the values of the Python floats). *)

Abs(n) == IF n < 0 THEN -n ELSE n

Sgn(n) == IF n < 0 THEN -1 ELSE IF n = 0 THEN 0 ELSE 1

RECURSIVE Gcd(_, _)
Gcd(a, b) == IF b = 0 THEN a ELSE Gcd(b, a % b)

Rat(n, d) ==
  LET g == Gcd(Abs(n), Abs(d))
      s == IF d < 0 THEN -1 ELSE 1
  IN <<(s * n) \div g, (s * d) \div g>>

Num(v) == <<v, 1>>

RMul(a, b) == Rat(a[1] * b[1], a[2] * b[2])

RDiv(a, b) == Rat(a[1] * b[2], a[2] * b[1])

RNeg(a) == <<-a[1], a[2]>>

RIsZero(a) == a[1] = 0

RSign(a) == Sgn(a[1])

IsSquare(n) == \E k \in 0..n : k * k = n

ISqrt(n) == CHOOSE k \in 0..n : k * k = n

-----------------------------------------------------------------------------
(* Roots returned by sp.solve.  A root is real or purely imaginary; its    *)
(* magnitude is the rational q, or sqrt(|q|) signed like q when surd.      *)

Root(part, surd, q) == [part |-> part, surd |-> surd, q |-> q]

RealRoot(q) == Root("real", FALSE, q)

(* +sqrt(c) for a rational c > 0. *)
SqrtOf(c) ==
  IF IsSquare(c[1]) /\ IsSquare(c[2])
  THEN <<FALSE, Rat(ISqrt(c[1]), ISqrt(c[2]))>>
  ELSE <<TRUE, c>>

(* The two roots of x**2 = c, c # 0, in the order sp.solve lists them. *)
SquareRoots(c) ==
  LET m == SqrtOf(<<Abs(c[1]), c[2]>>)
      part == IF RSign(c) > 0 THEN "real" ELSE "imag"
  IN <<Root(part, m[1], RNeg(m[2])), Root(part, m[1], m[2])>>

(* The square of a root, a rational. *)
Square(r) ==
  LET m == IF r.surd THEN <<Abs(r.q[1]), r.q[2]>> ELSE RMul(r.q, r.q)
  IN IF r.part = "imag" THEN RNeg(m) ELSE m

(* Mutant: the filter keeps every root. *)
is_real_Any(r) == TRUE

is_real(r) == r.part = "real"

-----------------------------------------------------------------------------
(* app_data.py: the equation registry.  An expression of the catalog has   *)
(* the shape  head - coef * (product of sym**exp); its text is kept as the *)
(* parsed tree: the head symbol, the numeric coefficient and the factors   *)
(* in the order they are written.  fault names what is wrong with a text   *)
(* that does not parse to an expression: "" (nothing), "syntax" (the text  *)
(* is not a Python expression) or "subscript" (its evaluation subscripts a *)
(* symbol).                                                                *)

Factor(sym, exp) == [sym |-> sym, exp |-> exp]

Expression(head, coef, factors) ==
  [fault |-> "", head |-> head, coef |-> coef, factors |-> factors]

EngineeringEquation(name, expression, variables) ==
  [name |-> name, expression |-> expression, variables |-> variables]

(* Mutant: a registry with a variable entry ("w") its expression does not  *)
(* use.                                                                    *)
EQUATIONS_UnusedVariable ==
  << EngineeringEquation("Shear flow between bonded plates",
       Expression("tau", <<1, 1>>,
         <<Factor("V", 1), Factor("Q", 1), Factor("I", -1), Factor("b", -1)>>),
       <<"tau", "V", "Q", "I", "b">>),
     EngineeringEquation("Punching force",
       Expression("F", <<1, 1>>,
         <<Factor("t", 1), Factor("L", 1), Factor("S_s", 1)>>),
       <<"F", "t", "L", "S_s", "w">>),
     EngineeringEquation("Air bending force (approximate)",
       Expression("F", <<1, 8>>,
         <<Factor("k", 1), Factor("S_t", 1), Factor("t", 2), Factor("W", 1),
           Factor("V_d", -1)>>),
       <<"F", "k", "S_t", "t", "W", "V_d">>) >>

EQUATIONS ==
  << EngineeringEquation("Shear flow between bonded plates",
       Expression("tau", <<1, 1>>,
         <<Factor("V", 1), Factor("Q", 1), Factor("I", -1), Factor("b", -1)>>),
       <<"tau", "V", "Q", "I", "b">>),
     EngineeringEquation("Punching force",
       Expression("F", <<1, 1>>,
         <<Factor("t", 1), Factor("L", 1), Factor("S_s", 1)>>),
       <<"F", "t", "L", "S_s">>),
     EngineeringEquation("Air bending force (approximate)",
       Expression("F", <<1, 8>>,
         <<Factor("k", 1), Factor("S_t", 1), Factor("t", 2), Factor("W", 1),
           Factor("V_d", -1)>>),
       <<"F", "k", "S_t", "t", "W", "V_d">>) >>

(* An externally supplied equation whose expression text is malformed:     *)
(* "F - (t * L", an unbalanced parenthesis.                                *)
MalformedEquation ==
  EngineeringEquation("External (malformed)",
    [fault |-> "syntax", head |-> "F", coef |-> <<1, 1>>, factors |-> <<>>],
    <<"F", "t", "L">>)

(* An externally supplied equation whose text is a Python expression but   *)
(* fails when it is evaluated on the symbols: "F - t[L]".                  *)
UnsubscriptableEquation ==
  EngineeringEquation("External (subscript)",
    [fault |-> "subscript", head |-> "F", coef |-> <<1, 1>>, factors |-> <<>>],
    <<"F", "t", "L">>)

(* Every equation solve_equation is called with: the registry, then the    *)
(* external ones.                                                          *)
Catalog == EQUATIONS \o <<MalformedEquation, UnsubscriptableEquation>>

Range(seq) == {seq[i] : i \in DOMAIN seq}

Keys(e) == Range(e.variables)

-----------------------------------------------------------------------------
(* Sympy as solve_equation uses it. *)

(* Python's None as a value of the inputs mapping; a float is <<n, d>>. *)
None == <<>>

(* Symbol names in Sympy's default sort order (by name, ASCII), the order  *)
(* in which Basic.subs applies the pairs of a dict.                        *)
SortedNames ==
  <<"F", "I", "L", "Q", "S_s", "S_t", "V", "V_d", "W", "b", "k", "t", "tau">>

(* Python's exception classes: the class of an exception and its bases.    *)
(* SympifyError is a ValueError.                                           *)
ExceptionClasses(type) ==
  CASE type = "SympifyError" -> {"SympifyError", "ValueError", "Exception"}
    [] type = "ValueError" -> {"ValueError", "Exception"}
    [] type = "KeyError" -> {"KeyError", "LookupError", "Exception"}
    [] type = "TypeError" -> {"TypeError", "Exception"}
    [] OTHER -> {}

(* The exception parse_expr ends with for a faulty text.  sp.sympify turns *)
(* only the tokenizer's and the parser's errors (TokenError, SyntaxError)  *)
(* into SympifyError; an exception raised while the parsed text is         *)
(* evaluated (here TypeError: 'Symbol' object is not subscriptable) leaves *)
(* sp.sympify as it is.                                                    *)
ParseFailure(expression) ==
  IF expression.fault = "syntax" THEN "SympifyError" ELSE "TypeError"

(* sp.sympify(text, locals=symbols): the parsed expression, or the         *)
(* exception that leaves it.                                               *)
sympify(expression) ==
  IF expression.fault = ""
  THEN [raised |-> FALSE, type |-> "", expr |-> expression]
  ELSE [raised |-> TRUE, type |-> ParseFailure(expression), expr |-> expression]

(* expression.free_symbols *)
Symbols(expr) == {expr.head} \cup {expr.factors[i].sym : i \in DOMAIN expr.factors}

ExpOf(expr, name) ==
  LET hit == {i \in DOMAIN expr.factors : expr.factors[i].sym = name}
  IN IF hit = {} THEN 0 ELSE expr.factors[CHOOSE i \in hit : TRUE].exp

RECURSIVE RPow(_, _)
RPow(a, n) == IF n = 0 THEN <<1, 1>> ELSE RMul(a, RPow(a, n - 1))

(* Mutant: a power of a symbol is substituted as the symbol itself. *)
SubsOne_NoPower(term, exp, v) ==
  IF exp = 0 \/ term.st \in {"zero", "nan"} THEN term
  ELSE IF RIsZero(v)
    THEN IF exp < 0 THEN [term EXCEPT !.st = "zoo"]
         ELSE IF term.st = "zoo" THEN [term EXCEPT !.st = "nan"]
         ELSE [term EXCEPT !.st = "zero"]
  ELSE IF term.st = "zoo" THEN term
  ELSE [term EXCEPT !.c = IF exp > 0 THEN RMul(term.c, v) ELSE RDiv(term.c, v)]

(* One pair of subs applied to the product term.  The term is a finite     *)
(* nonzero coefficient times the symbols left ("num"), has collapsed to 0  *)
(* ("zero": Mul with a zero coefficient drops its symbols), is zoo times   *)
(* the symbols left ("zoo": 0.0**-1), or is nan (0 * zoo).                 *)
SubsOne(term, exp, v) ==
  IF exp = 0 \/ term.st \in {"zero", "nan"} THEN term
  ELSE IF RIsZero(v)
    THEN IF exp < 0 THEN [term EXCEPT !.st = "zoo"]
         ELSE IF term.st = "zoo" THEN [term EXCEPT !.st = "nan"]
         ELSE [term EXCEPT !.st = "zero"]
  ELSE IF term.st = "zoo" THEN term
  ELSE [term EXCEPT !.c =
          IF exp > 0 THEN RMul(term.c, RPow(v, exp))
          ELSE RDiv(term.c, RPow(v, -exp))]

(* expr.subs(substitutions) on the product term: the pairs in sorted order *)
RECURSIVE SubsTerm(_, _, _, _)
SubsTerm(expr, substitutions, i, term) ==
  IF i > Len(SortedNames) THEN term
  ELSE LET k == SortedNames[i]
       IN SubsTerm(expr, substitutions, i + 1,
            IF k \in DOMAIN substitutions
            THEN SubsOne(term, ExpOf(expr, k), substitutions[k])
            ELSE term)

(* Mutant: the root of a linear equation with the wrong sign. *)
solve_Negated(expr, substitutions, target) ==
  LET term == SubsTerm(expr, substitutions, 1, [st |-> "num", c |-> expr.coef])
      e == ExpOf(expr, target)
  IN IF target = expr.head
     THEN IF term.st = "zero" THEN <<RealRoot(<<0, 1>>)>>
          ELSE IF term.st = "num" THEN <<RealRoot(term.c)>>
          ELSE <<>>
     ELSE LET h == substitutions[expr.head]
          IN IF term.st # "num" THEN <<>>
             ELSE IF e = 1 THEN <<RealRoot(RNeg(RDiv(h, term.c)))>>
             ELSE IF e = -1
               THEN IF RIsZero(h) THEN <<>> ELSE <<RealRoot(RDiv(term.c, h))>>
             ELSE IF RIsZero(h) THEN <<RealRoot(<<0, 1>>)>>
             ELSE SquareRoots(RDiv(h, term.c))

(* Mutant: the root of a linear equation not divided by the coefficient of *)
(* the unknown.                                                            *)
solve_NoDivide(expr, substitutions, target) ==
  LET term == SubsTerm(expr, substitutions, 1, [st |-> "num", c |-> expr.coef])
      e == ExpOf(expr, target)
  IN IF target = expr.head
     THEN IF term.st = "zero" THEN <<RealRoot(<<0, 1>>)>>
          ELSE IF term.st = "num" THEN <<RealRoot(term.c)>>
          ELSE <<>>
     ELSE LET h == substitutions[expr.head]
          IN IF term.st # "num" THEN <<>>
             ELSE IF e = 1 THEN <<RealRoot(h)>>
             ELSE IF e = -1
               THEN IF RIsZero(h) THEN <<>> ELSE <<RealRoot(RDiv(term.c, h))>>
             ELSE IF RIsZero(h) THEN <<RealRoot(<<0, 1>>)>>
             ELSE SquareRoots(RDiv(h, term.c))

(* sp.solve(Eq(expr, 0).subs(substitutions), target): all roots, complex   *)
(* ones included.  An equation that subs has turned into True or False     *)
(* (no symbol left) gives [], and so does one with zoo or nan in it.       *)
solve(expr, substitutions, target) ==
  LET term == SubsTerm(expr, substitutions, 1, [st |-> "num", c |-> expr.coef])
      e == ExpOf(expr, target)
  IN IF target = expr.head
     THEN IF term.st = "zero" THEN <<RealRoot(<<0, 1>>)>>
          ELSE IF term.st = "num" THEN <<RealRoot(term.c)>>
          ELSE <<>>
     ELSE LET h == substitutions[expr.head]
          IN IF term.st # "num" THEN <<>>
             ELSE IF e = 1 THEN <<RealRoot(RDiv(h, term.c))>>
             ELSE IF e = -1
               THEN IF RIsZero(h) THEN <<>> ELSE <<RealRoot(RDiv(term.c, h))>>
             ELSE IF RIsZero(h) THEN <<RealRoot(<<0, 1>>)>>
             ELSE SquareRoots(RDiv(h, term.c))

-----------------------------------------------------------------------------
(* pages/5_Engineering_Equations.py: solve_equation. *)

Returned(solved, real_solutions) ==
  [kind |-> "solutions", type |-> "", missing |-> "",
   solved |-> solved, solutions |-> real_solutions]

(* An exception leaving solve_equation: its type and the name it carries    *)
(* (the variable of the missing-input message, the key of a KeyError).     *)
Raised(type, missing) ==
  [kind |-> "error", type |-> type, missing |-> missing,
   solved |-> <<>>, solutions |-> <<>>]

NoOutcome ==
  [kind |-> "none", type |-> "", missing |-> "", solved |-> <<>>, solutions |-> <<>>]

(* line 26, symbols[k]: the keys of inputs that carry a number, are not    *)
(* solve_for and are not variables of the equation.                        *)
StrayKeys(e, solve_for_, inputs_) ==
  {k \in DOMAIN inputs_ : inputs_[k] # None /\ k # solve_for_ /\ k \notin Keys(e)}

(* line 26: the supplied values of the variables other than solve_for;     *)
(* every key kept is looked up in symbols, so a stray key raises KeyError  *)
(* (the first one met; a mapping of the model carries at most one).        *)
Substitutions(e, solve_for_, inputs_) ==
  LET ks == {k \in DOMAIN inputs_ : inputs_[k] # None /\ k # solve_for_}
      stray == StrayKeys(e, solve_for_, inputs_)
  IN IF stray # {}
     THEN [raised |-> TRUE, key |-> CHOOSE k \in stray : TRUE, subs |-> <<>>]
     ELSE [raised |-> FALSE, key |-> "", subs |-> [k \in ks |-> inputs_[k]]]

(* line 27, symbols[solve_for]: KeyError when solve_for is not a variable *)
Target(e, solve_for_) ==
  IF solve_for_ \in Keys(e) THEN [raised |-> FALSE, key |-> ""]
  ELSE [raised |-> TRUE, key |-> solve_for_]

(* line 30: the first key, in declaration order, absent from inputs or None *)
Missing(e, solve_for_, inputs_) ==
  LET lacking == {i \in DOMAIN e.variables :
                    e.variables[i] \notin DOMAIN inputs_ \/ inputs_[e.variables[i]] = None}
  IN e.variables[CHOOSE i \in lacking : \A j \in lacking : i <= j]

(* Mutant: no completeness check; with a symbol left over sp.solve gives   *)
(* symbolic roots, none of which is_real.                                  *)
solve_equation_NoCheck(e, solve_for_, inputs_) ==
  LET parsed == sympify(e.expression)
      substitutions == Substitutions(e, solve_for_, inputs_)
      target == Target(e, solve_for_)
  IN IF parsed.raised THEN Raised(parsed.type, "")
     ELSE IF substitutions.raised THEN Raised("KeyError", substitutions.key)
     ELSE IF target.raised THEN Raised("KeyError", target.key)
     ELSE IF Cardinality(DOMAIN substitutions.subs) + 1 # Len(e.variables)
       THEN Returned(<<>>, <<>>)
     ELSE LET solved == solve(parsed.expr, substitutions.subs, solve_for_)
          IN Returned(solved, SelectSeq(solved, is_real))

solve_equation(e, solve_for_, inputs_) ==
  LET parsed == sympify(e.expression)
      substitutions == Substitutions(e, solve_for_, inputs_)
      target == Target(e, solve_for_)
  IN IF parsed.raised THEN Raised(parsed.type, "")
     ELSE IF substitutions.raised THEN Raised("KeyError", substitutions.key)
     ELSE IF target.raised THEN Raised("KeyError", target.key)
     ELSE IF Cardinality(DOMAIN substitutions.subs) + 1 # Len(e.variables)
       THEN Raised("ValueError", Missing(e, solve_for_, inputs_))
     ELSE LET solved == solve(parsed.expr, substitutions.subs, solve_for_)
          IN Returned(solved, SelectSeq(solved, is_real))

-----------------------------------------------------------------------------
(* Concurrent callers (threads of one process, as the scripts of           *)
(* Streamlit's sessions are; app_data is imported once, so EQUATIONS is    *)
(* shared).                                                                *)

Callers == {"s1", "s2"}

NoExpression == [fault |-> "", head |-> "", coef |-> <<0, 1>>, factors |-> <<>>]

(* A caller that is not inside solve_equation and has not called it yet. *)
IdleCaller ==
  [pc |-> "idle", eq |-> 0, solve_for |-> "", inputs |-> <<>>, given |-> <<>>,
   expression |-> NoExpression, substitutions |-> <<>>, outcome |-> NoOutcome]

NoCallers == [c \in Callers |-> IdleCaller]

-----------------------------------------------------------------------------
(* The calls of solve_equation: any equation of the catalog and any        *)
(* mapping from some of its variables to a float or None, with an unknown  *)
(* among its variables; and, since Dict[str, Optional[float]] admits any   *)
(* key, mappings with one more key that is no variable of the equation     *)
(* (its value, and the values beside it, None or 1.0), with that key as a  *)
(* further choice of solve_for.                                            *)

Vals == (-1)..MaxVal

Floats == {Num(v) : v \in Vals}

(* A key that is not a variable of any equation. *)
StrayName == "zzz"

StrayMappings(e) ==
  UNION {[S \cup {StrayName} -> {None, Num(1)}] : S \in SUBSET Keys(e)}

InputMappings(e) ==
  UNION {[S -> Floats \cup {None}] : S \in SUBSET Keys(e)} \cup StrayMappings(e)

Unknowns(e, inputs_) == Keys(e) \cup (DOMAIN inputs_ \cap {StrayName})

NoPrev == [solve_for |-> "", inputs |-> <<>>, outcome |-> NoOutcome]

Init ==
  /\ eq \in DOMAIN Catalog
  /\ inputs \in InputMappings(Catalog[eq])
  /\ solve_for \in Unknowns(Catalog[eq], inputs)
  /\ outcome = NoOutcome
  /\ shown = "none"
  /\ prev = NoPrev
  /\ registry = EQUATIONS
  /\ callers = NoCallers

(* A caller invokes solve_equation(eq, solve_for, inputs). *)
Call ==
  /\ outcome.kind = "none"
  /\ outcome' = solve_equation(Catalog[eq], solve_for, inputs)
  /\ UNCHANGED <<eq, solve_for, inputs, shown, prev, registry, callers>>

(* The caller takes the single rational solution as the known value of the *)
(* variable just solved for and solves the same equation for next_.        *)
FeedBack(next_) ==
  /\ prev = NoPrev
  /\ outcome.kind = "solutions"
  /\ Len(outcome.solutions) = 1
  /\ ~outcome.solutions[1].surd
  /\ next_ \in Keys(Catalog[eq]) \ {solve_for}
  /\ prev' = [solve_for |-> solve_for, inputs |-> inputs, outcome |-> outcome]
  /\ solve_for' = next_
  /\ inputs' = [k \in DOMAIN inputs \cup {solve_for} |->
                  IF k = solve_for THEN outcome.solutions[1].q
                  ELSE IF k = next_ THEN None ELSE inputs[k]]
  /\ outcome' = solve_equation(Catalog[eq], next_, inputs')
  /\ UNCHANGED <<eq, shown, registry, callers>>

Next == Call \/ \E next_ \in Range(SortedNames) : FeedBack(next_)

Spec == Init /\ [][Next]_vars

-----------------------------------------------------------------------------
(* The page: the script loops over EQUATIONS and is rerun by Streamlit on  *)
(* every interaction; eq is the expander the user works in.  Each run      *)
(* parses the expression of every expander once more for st.latex, before  *)
(* the widgets of that expander and outside any try: an exception there    *)
(* ends the run, and that expander and the ones after it get no widgets.   *)

(* line 40, sp.sympify(text) without locals: the names of the text are     *)
(* looked up in the namespace of `from sympy import *`.  Q is bound there  *)
(* to the assumption keys, an object without arithmetic, so a text that    *)
(* uses Q raises TypeError (V*Q: unsupported operand types, Symbol and     *)
(* AssumptionKeys) when it is evaluated; I is the imaginary unit, which    *)
(* parses; every other name of the registry is a fresh symbol.             *)
sympify_no_locals(expression) ==
  IF expression.fault # "" THEN ParseFailure(expression)
  ELSE IF "Q" \in Symbols(expression) THEN "TypeError"
  ELSE "parsed"

(* The widgets of expander eq are on the page. *)
Rendered == shown \in {"none", "success", "warning", "error"}

(* lines 50-60: None for the unknown, the number_input value for the rest  *)
PageInputs(e, u, value) ==
  [k \in Keys(e) |-> IF k = u THEN None ELSE value[k]]

(* lines 62-70: the Solve button *)
SolveButtonHandler(e, u, inputs_) ==
  LET solutions == solve_equation(e, u, inputs_)
  IN [outcome |-> solutions,
      shown |-> IF solutions.kind = "error" THEN "error"
                ELSE IF solutions.solutions = <<>> THEN "warning"
                ELSE "success"]

(* The page is opened; the script has not run.  solve_for and inputs are   *)
(* the widget defaults: the first option of the selectbox, value=0.0.      *)
PageInit ==
  /\ eq \in DOMAIN EQUATIONS
  /\ solve_for = EQUATIONS[eq].variables[1]
  /\ inputs = PageInputs(EQUATIONS[eq], solve_for, [k \in Keys(EQUATIONS[eq]) |-> Num(0)])
  /\ outcome = NoOutcome
  /\ shown = "loading"
  /\ prev = NoPrev
  /\ registry = EQUATIONS
  /\ callers = NoCallers

(* lines 38-60, the script run: line 40 returns for every expander up to   *)
(* eq, whose widgets are rendered at their defaults.  With the registry as *)
(* it is, the first expander (shear flow, which uses Q) stops every run,   *)
(* so this step and the widget steps below are never enabled.              *)
RenderExpanders ==
  /\ shown = "loading"
  /\ \A i \in 1..eq : sympify_no_locals(EQUATIONS[i].expression) = "parsed"
  /\ shown' = "none"
  /\ UNCHANGED <<eq, solve_for, inputs, outcome, prev, registry, callers>>

(* lines 38-40, the script run: line 40 raises in expander eq or in one    *)
(* before it; Streamlit prints the exception and the run ends without the  *)
(* widgets of expander eq, in this run and in every rerun.                 *)
ScriptStops ==
  /\ shown = "loading"
  /\ \E i \in 1..eq : sympify_no_locals(EQUATIONS[i].expression) # "parsed"
  /\ shown' = "exception"
  /\ UNCHANGED <<eq, solve_for, inputs, outcome, prev, registry, callers>>

(* selectbox: another unknown; its input disappears, the former unknown    *)
(* gets a fresh number_input at the default 0.0                            *)
SelectSolveFor(u) ==
  /\ Rendered
  /\ u \in Keys(EQUATIONS[eq]) \ {solve_for}
  /\ solve_for' = u
  /\ inputs' = PageInputs(EQUATIONS[eq], u, [inputs EXCEPT ![solve_for] = Num(0)])
  /\ outcome' = NoOutcome
  /\ shown' = "none"
  /\ UNCHANGED <<eq, prev, registry, callers>>

(* number_input: the user types a value *)
NumberInput(symbol, v) ==
  /\ Rendered
  /\ symbol \in Keys(EQUATIONS[eq]) \ {solve_for}
  /\ inputs[symbol] # Num(v)
  /\ inputs' = PageInputs(EQUATIONS[eq], solve_for, [inputs EXCEPT ![symbol] = Num(v)])
  /\ outcome' = NoOutcome
  /\ shown' = "none"
  /\ UNCHANGED <<eq, solve_for, prev, registry, callers>>

SolveButton ==
  /\ Rendered
  /\ outcome.kind = "none"
  /\ LET r == SolveButtonHandler(EQUATIONS[eq], solve_for, inputs)
     IN outcome' = r.outcome /\ shown' = r.shown
  /\ UNCHANGED <<eq, solve_for, inputs, prev, registry, callers>>

(* A rerun caused by a widget of another expander (the selectbox, a        *)
(* number_input or the button the loop creates for another equation): the  *)
(* button of eq returns False in that run, lines 63-70 are skipped and the *)
(* message of eq is gone; its selectbox and number inputs keep their       *)
(* values.                                                                 *)
OtherExpanderRerun(other) ==
  /\ Rendered
  /\ other \in DOMAIN EQUATIONS \ {eq}
  /\ outcome' = NoOutcome
  /\ shown' = "none"
  /\ UNCHANGED <<eq, solve_for, inputs, prev, registry, callers>>

PageNext ==
  \/ RenderExpanders
  \/ ScriptStops
  \/ \E other \in DOMAIN EQUATIONS : OtherExpanderRerun(other)
  \/ \E u \in Range(SortedNames) : SelectSolveFor(u)
  \/ \E symbol \in Range(SortedNames), v \in Vals : NumberInput(symbol, v)
  \/ SolveButton

PageSpec == PageInit /\ [][PageNext]_vars

-----------------------------------------------------------------------------
(* Concurrent callers.  Each caller runs solve_equation in steps that may  *)
(* interleave with the other caller's: lines 22-27 (read the equation from *)
(* the shared registry, parse, build substitutions and target, any of      *)
(* which may raise), lines 29-31 (the completeness check, which reads      *)
(* eq.variables again), lines 33-35.                                       *)
(* eq, solve_for, inputs name one request under observation and outcome    *)
(* records what the first completed call with that request gave.           *)

(* Largest value typed into the number inputs of a session. *)
MaxSessionVal == 1

(* The mappings a caller passes: as the page builds them with every        *)
(* number_input at the same value, or only the entry of the unknown (every *)
(* other value missing), or, for the first variable as the unknown, that   *)
(* with a value under a stray key.                                         *)
SessionInputs(e, u) ==
  {PageInputs(e, u, [k \in Keys(e) |-> Num(v)]) : v \in 0..MaxSessionVal}
    \cup {[k \in {u} |-> None]}
    \cup (IF u = e.variables[1]
          THEN {[k \in {u, StrayName} |-> IF k = u THEN None ELSE Num(0)]}
          ELSE {})

(* The unknowns the sessions choose: the first and the last variable of    *)
(* the equation in declaration order.                                      *)
SessionUnknowns(e) == {e.variables[1], e.variables[Len(e.variables)]}

SessionsInit ==
  /\ registry = EQUATIONS
  /\ callers = NoCallers
  /\ eq \in DOMAIN EQUATIONS
  /\ solve_for \in SessionUnknowns(EQUATIONS[eq])
  /\ inputs \in SessionInputs(EQUATIONS[eq], solve_for)
  /\ outcome = NoOutcome
  /\ shown = "none"
  /\ prev = NoPrev

Observed(c) ==
  /\ callers[c].eq = eq
  /\ callers[c].solve_for = solve_for
  /\ callers[c].given = inputs

(* The call of caller c ends with outcome o (return or raise). *)
Finish(c, o) ==
  /\ callers' = [callers EXCEPT ![c].pc = "done", ![c].outcome = o]
  /\ outcome' = IF Observed(c) /\ outcome = NoOutcome THEN o ELSE outcome

(* lines 21-27: caller c enters solve_equation(registry[e], u, inputs_) *)
Begin(c, e, u, inputs_) ==
  /\ callers[c].pc \in {"idle", "done"}
  /\ LET parsed == sympify(registry[e].expression)
         substitutions == Substitutions(registry[e], u, inputs_)
         target == Target(registry[e], u)
         raised == IF parsed.raised THEN Raised(parsed.type, "")
                   ELSE IF substitutions.raised THEN Raised("KeyError", substitutions.key)
                   ELSE IF target.raised THEN Raised("KeyError", target.key)
                   ELSE NoOutcome
         call == [pc |-> "parsed", eq |-> e, solve_for |-> u,
                  inputs |-> inputs_, given |-> inputs_,
                  expression |-> parsed.expr,
                  substitutions |-> substitutions.subs,
                  outcome |-> NoOutcome]
     IN IF raised # NoOutcome
        THEN /\ callers' = [callers EXCEPT ![c] =
                  [call EXCEPT !.pc = "done", !.outcome = raised]]
             /\ outcome' = IF e = eq /\ u = solve_for /\ inputs_ = inputs
                               /\ outcome = NoOutcome
                            THEN raised ELSE outcome
        ELSE /\ callers' = [callers EXCEPT ![c] = call]
             /\ outcome' = outcome
  /\ UNCHANGED <<eq, solve_for, inputs, shown, prev, registry>>

(* Mutant: the check removes the entry of the unknown from the caller's    *)
(* mapping.                                                                *)
Check_DropsUnknown(c) ==
  /\ callers[c].pc = "parsed"
  /\ LET me == callers[c]
         e == registry[me.eq]
     IN IF Cardinality(DOMAIN me.substitutions) + 1 # Len(e.variables)
        THEN Finish(c, Raised("ValueError", Missing(e, me.solve_for, me.inputs)))
        ELSE /\ callers' = [callers EXCEPT ![c].pc = "checked",
                              ![c].inputs = [k \in DOMAIN me.inputs \ {me.solve_for}
                                               |-> me.inputs[k]]]
             /\ outcome' = outcome
  /\ UNCHANGED <<eq, solve_for, inputs, shown, prev, registry>>

(* lines 29-31: the completeness check *)
Check(c) ==
  /\ callers[c].pc = "parsed"
  /\ LET me == callers[c]
         e == registry[me.eq]
     IN IF Cardinality(DOMAIN me.substitutions) + 1 # Len(e.variables)
        THEN Finish(c, Raised("ValueError", Missing(e, me.solve_for, me.inputs)))
        ELSE /\ callers' = [callers EXCEPT ![c].pc = "checked"]
             /\ outcome' = outcome
  /\ UNCHANGED <<eq, solve_for, inputs, shown, prev, registry>>

(* Mutant: the call leaves the variables of the shared equation in sorted  *)
(* order.                                                                  *)
Solve_SortsVariables(c) ==
  /\ callers[c].pc = "checked"
  /\ LET me == callers[c]
         solved == solve(me.expression, me.substitutions, me.solve_for)
     IN /\ Finish(c, Returned(solved, SelectSeq(solved, is_real)))
        /\ registry' = [registry EXCEPT ![me.eq].variables =
                          SelectSeq(SortedNames, LAMBDA k : k \in Keys(registry[me.eq]))]
  /\ UNCHANGED <<eq, solve_for, inputs, shown, prev>>

(* lines 33-35: solve, filter, return *)
Solve(c) ==
  /\ callers[c].pc = "checked"
  /\ LET me == callers[c]
         solved == solve(me.expression, me.substitutions, me.solve_for)
     IN Finish(c, Returned(solved, SelectSeq(solved, is_real)))
  /\ UNCHANGED <<eq, solve_for, inputs, shown, prev, registry>>

SessionsNext ==
  \E c \in Callers :
    \/ \E e \in DOMAIN registry :
         \E u \in SessionUnknowns(registry[e]) :
           \E inputs_ \in SessionInputs(registry[e], u) : Begin(c, e, u, inputs_)
    \/ Check(c)
    \/ Solve(c)

SessionsSpec == SessionsInit /\ [][SessionsNext]_vars

-----------------------------------------------------------------------------
(* Vocabulary of the properties. *)

CurEq == Catalog[eq]

Called == outcome.kind # "none"

BuiltIn == eq \in DOMAIN EQUATIONS

Supplied(inputs_, k) == k \in DOMAIN inputs_ /\ inputs_[k] # None

(* The variables other than the unknown that have no numeric value. *)
Lacking == {k \in Keys(CurEq) \ {solve_for} : ~Supplied(inputs, k)}

AllSupplied == Lacking = {}

(* The request is one of the solve operation's domain: the unknown is a    *)
(* variable of the equation and the mapping gives no number under a key    *)
(* that is not one.                                                        *)
WellFormed ==
  /\ solve_for \in Keys(CurEq)
  /\ StrayKeys(CurEq, solve_for, inputs) = {}

MissingInputError == outcome.kind = "error" /\ outcome.type = "ValueError"

(* The equation evaluated exactly: the value of each variable is its input,*)
(* the value of the unknown is x; x is given by its powers (x, x**2).      *)
RECURSIVE Product(_, _, _, _, _, _)
Product(expr, u, inputs_, xpow, sign, i) ==
  IF i > Len(expr.factors) THEN <<1, 1>>
  ELSE LET f == expr.factors[i]
           rest == Product(expr, u, inputs_, xpow, sign, i + 1)
       IN IF f.exp * sign <= 0 THEN rest
          ELSE RMul(rest, IF f.sym = u THEN xpow[Abs(f.exp)]
                          ELSE RPow(inputs_[f.sym], Abs(f.exp)))

HeadValue(expr, u, inputs_, xpow) ==
  IF expr.head = u THEN xpow[1] ELSE inputs_[expr.head]

(* head * denominator = coef * numerator *)
SatisfiesCleared(e, u, inputs_, xpow) ==
  LET expr == e.expression
  IN RMul(HeadValue(expr, u, inputs_, xpow), Product(expr, u, inputs_, xpow, -1, 1))
       = RMul(expr.coef, Product(expr, u, inputs_, xpow, 1, 1))

(* the expression is defined (no zero denominator) and equals zero *)
Satisfies(e, u, inputs_, xpow) ==
  /\ ~RIsZero(Product(e.expression, u, inputs_, xpow, -1, 1))
  /\ SatisfiesCleared(e, u, inputs_, xpow)

PowersOfNumber(x) == <<x, RMul(x, x)>>

(* The parts of the equation the supplied values fix: the denominator and  *)
(* the numerator of the product with the factor of the unknown left out.   *)
KnownDenominator ==
  Product(CurEq.expression, solve_for, inputs, <<Num(1), Num(1)>>, -1, 1)

KnownNumerator ==
  RMul(CurEq.expression.coef,
       Product(CurEq.expression, solve_for, inputs, <<Num(1), Num(1)>>, 1, 1))

(* Some real value x of the unknown satisfies the equation with the        *)
(* supplied values: the expression is defined (no zero denominator) and    *)
(* zero.  With lhs = head * denominator and the unknown x in the product   *)
(* with exponent 1, 2 or -1 this is lhs = n*x, lhs = n*x**2, lhs*x = n     *)
(* (x # 0).                                                                *)
RealRootExists ==
  LET expr == CurEq.expression
      n == KnownNumerator
  IN IF RIsZero(KnownDenominator) THEN FALSE
     ELSE IF solve_for = expr.head THEN TRUE
     ELSE LET lhs == RMul(inputs[expr.head], KnownDenominator)
              exp == ExpOf(expr, solve_for)
          IN IF exp = 1 THEN ~RIsZero(n) \/ RIsZero(lhs)
             ELSE IF exp = 2
               THEN IF RIsZero(n) THEN RIsZero(lhs) ELSE RSign(lhs) * RSign(n) >= 0
             ELSE RIsZero(lhs) = RIsZero(n)

-----------------------------------------------------------------------------
(* C1: for a registry equation, any unknown among its variables and any    *)
(* mapping of variables of the equation (a further key is harmless when    *)
(* its value is None), when at least one other variable is absent from the *)
(* mapping or mapped to None, solve_equation raises the missing-input      *)
(* error and returns no solutions, whichever and however many variables    *)
(* are omitted.                                                            *)
C1_MissingInputAlwaysFails ==
  (Called /\ BuiltIn /\ WellFormed /\ Lacking # {}) =>
    (MissingInputError /\ outcome.missing # "" /\ outcome.solutions = <<>>)

C1_Witness ==
  /\ Called /\ BuiltIn /\ WellFormed /\ Cardinality(Lacking) >= 2
  /\ \E k \in Lacking : k \notin DOMAIN inputs
  /\ \E k \in Lacking : k \in DOMAIN inputs
  /\ MissingInputError

(* C2 as claimed: the variable named by the missing-input error is the     *)
(* first variable in declaration order among the variables other than the  *)
(* unknown that lack a value.                                              *)
FirstLacking ==
  LET idx == {i \in DOMAIN CurEq.variables : CurEq.variables[i] \in Lacking}
  IN CurEq.variables[CHOOSE i \in idx : \A j \in idx : i <= j]

C2_ReportsFirstMissingOther ==
  (Called /\ BuiltIn /\ WellFormed /\ MissingInputError) =>
    outcome.missing = FirstLacking

(* C3 as claimed: for a registry equation with every other variable       *)
(* supplied (0 included), an empty result means that no real value of the  *)
(* unknown satisfies the equation with these values.                       *)
C3_EmptyMeansNoRealRoot ==
  ( /\ Called /\ BuiltIn /\ WellFormed /\ AllSupplied
    /\ outcome.kind = "solutions" /\ outcome.solutions = <<>> ) =>
    \A x \in Floats : ~Satisfies(CurEq, solve_for, inputs, PowersOfNumber(x))

(* The air-bending equation solved for t with every factor of the         *)
(* coefficient of t**2 nonzero: F - A*t**2 = 0, that is t**2 - c = 0 with  *)
(* c = 8*F*V_d / (k*S_t*W).                                                *)
QuadraticCase ==
  /\ Called /\ eq = 3 /\ solve_for = "t" /\ WellFormed /\ AllSupplied
  /\ \A k \in {"k", "S_t", "W", "V_d"} : ~RIsZero(inputs[k])

QuadraticC ==
  RDiv(RMul(Num(8), RMul(inputs["F"], inputs["V_d"])),
       RMul(inputs["k"], RMul(inputs["S_t"], inputs["W"])))

(* C4: real-root filtering.  For t**2 - c = 0 the result is the two real   *)
(* roots +sqrt(c) and -sqrt(c) when c > 0 and is empty when c < 0; in      *)
(* every call no returned value is imaginary and no real root that sp.solve*)
(* produced is dropped.                                                    *)
C4_RealRootFiltering ==
  /\ (Called /\ outcome.kind = "solutions") =>
       /\ \A i \in DOMAIN outcome.solutions : outcome.solutions[i].part = "real"
       /\ \A i \in DOMAIN outcome.solved :
            outcome.solved[i].part = "real" =>
              \E j \in DOMAIN outcome.solutions : outcome.solutions[j] = outcome.solved[i]
  /\ (QuadraticCase /\ RSign(QuadraticC) > 0) =>
       /\ Len(outcome.solutions) = 2
       /\ \A i \in 1..2 : Square(outcome.solutions[i]) = QuadraticC
       /\ {RSign(outcome.solutions[i].q) : i \in 1..2} = {-1, 1}
  /\ (QuadraticCase /\ RSign(QuadraticC) < 0) => outcome.solutions = <<>>

C4_Witness ==
  /\ QuadraticCase /\ RSign(QuadraticC) < 0
  /\ Len(outcome.solved) = 2 /\ outcome.solved[1].part = "imag"
  /\ outcome.solutions = <<>>

(* C5: "Punching force" solved for F with t, L, S_s supplied returns the   *)
(* single solution t*L*S_s; "Air bending force" solved for F with k, S_t,  *)
(* t, W and a nonzero V_d supplied returns the single solution             *)
(* k*S_t*t**2*W / (8*V_d).                                                 *)
C5_ForceClosedForm ==
  /\ (Called /\ eq = 2 /\ solve_for = "F" /\ WellFormed /\ AllSupplied) =>
       outcome.solutions =
         <<RealRoot(RMul(inputs["t"], RMul(inputs["L"], inputs["S_s"])))>>
  /\ (Called /\ eq = 3 /\ solve_for = "F" /\ WellFormed /\ AllSupplied
        /\ ~RIsZero(inputs["V_d"])) =>
       outcome.solutions =
         <<RealRoot(RDiv(RMul(RMul(inputs["k"], inputs["S_t"]),
                              RMul(RMul(inputs["t"], inputs["t"]), inputs["W"])),
                         RMul(Num(8), inputs["V_d"])))>>

C5_Witness ==
  /\ Called /\ eq = 3 /\ solve_for = "F" /\ AllSupplied
  /\ inputs["t"] = Num(2) /\ inputs["V_d"] = Num(-1) /\ inputs["k"] = Num(2)
  /\ Len(outcome.solutions) = 1 /\ ~RIsZero(outcome.solutions[1].q)

(* The round trip on "Punching force": F solved from (t, L, S_s), then t   *)
(* solved from (F, L, S_s).                                                *)
RoundTrip ==
  /\ eq = 2 /\ prev # NoPrev /\ prev.solve_for = "F" /\ solve_for = "t"
  /\ \A k \in {"t", "L", "S_s"} : Supplied(prev.inputs, k)

(* C6 as claimed: the round trip returns the original t for any supplied   *)
(* t, L and S_s.                                                           *)
C6_RoundTripAnyInputs ==
  RoundTrip => outcome.solutions = <<RealRoot(prev.inputs["t"])>>

(* C6, amended: the round trip returns the original t for any supplied t   *)
(* and any nonzero L and S_s.                                              *)
C6_RoundTripNonzero ==
  (RoundTrip /\ ~RIsZero(prev.inputs["L"]) /\ ~RIsZero(prev.inputs["S_s"])) =>
    outcome.solutions = <<RealRoot(prev.inputs["t"])>>

C6_Witness ==
  /\ RoundTrip /\ prev.inputs["t"] = Num(2)
  /\ prev.inputs["L"] = Num(-1) /\ prev.inputs["S_s"] = Num(2)
  /\ inputs["F"] = Num(-4)
  /\ outcome.solutions = <<RealRoot(Num(2))>>

(* C7: in "Punching force", with t or with L as the unknown, every value   *)
(* returned satisfies F - t*L*S_s = 0 together with the supplied values.   *)
C7_PunchingSolutionsSatisfy ==
  (Called /\ eq = 2 /\ outcome.kind = "solutions") =>
    /\ solve_for = "t" =>
         \A i \in DOMAIN outcome.solutions :
           inputs["F"] = RMul(outcome.solutions[i].q, RMul(inputs["L"], inputs["S_s"]))
    /\ solve_for = "L" =>
         \A i \in DOMAIN outcome.solutions :
           inputs["F"] = RMul(inputs["t"], RMul(outcome.solutions[i].q, inputs["S_s"]))

C7_Witness ==
  /\ Called /\ eq = 2 /\ solve_for = "L" /\ Len(outcome.solutions) = 1
  /\ inputs["F"] = Num(2) /\ inputs["t"] = Num(-1) /\ inputs["S_s"] = Num(2)
  /\ outcome.solutions[1].q = <<-1, 1>>

(* The mapping with the entry of the unknown replaced by x, or removed. *)
WithUnknown(x) ==
  [k \in DOMAIN inputs \cup {solve_for} |-> IF k = solve_for THEN x ELSE inputs[k]]

WithoutUnknown == [k \in DOMAIN inputs \ {solve_for} |-> inputs[k]]

(* C8 as claimed: the outcome of solve_equation (solutions, or the error   *)
(* and the variable it names) is the same whether the mapping gives the    *)
(* unknown a number, gives it None, or omits it.                           *)
C8_UnknownEntryIgnored ==
  (Called /\ BuiltIn /\ WellFormed) =>
    /\ solve_equation(CurEq, solve_for, WithoutUnknown) = outcome
    /\ \A x \in Floats \cup {None} :
         solve_equation(CurEq, solve_for, WithUnknown(x)) = outcome

(* C9 as claimed: an expression that cannot be parsed makes solve_equation *)
(* fail with an error of the dedicated evaluation-error kind, a kind       *)
(* distinct from that of the missing-input error (here ValueError).        *)
C9_DedicatedEvaluationError ==
  (Called /\ CurEq.expression.fault # "") =>
    /\ outcome.kind = "error"
    /\ "EvaluationError" \in ExceptionClasses(outcome.type)
    /\ "ValueError" \notin ExceptionClasses(outcome.type)

(* C10 as claimed: zero real roots is a normal outcome: for a registry     *)
(* equation with every other variable supplied and no real value of the    *)
(* unknown satisfying the equation, solve_equation returns the empty       *)
(* sequence without raising (and the page shows the notice for it).        *)
C10_NoRealRootGivesEmpty ==
  (Called /\ BuiltIn /\ WellFormed /\ AllSupplied /\ ~RealRootExists) =>
    (outcome.kind = "solutions" /\ outcome.solutions = <<>>)

(* C11: determinism.  Among concurrent callers, every completed call of   *)
(* solve_equation with the observed (equation, unknown, mapping) has the   *)
(* outcome of the first completed call with these arguments, and two       *)
(* callers that completed calls with identical arguments hold identical    *)
(* outcomes, whatever calls, returned or failed, ran before or between.    *)
C11_Determinism ==
  /\ \A c \in Callers :
       (callers[c].pc = "done" /\ Observed(c)) => callers[c].outcome = outcome
  /\ \A c, d \in Callers :
       ( /\ callers[c].pc = "done" /\ callers[d].pc = "done"
         /\ callers[c].eq = callers[d].eq
         /\ callers[c].solve_for = callers[d].solve_for
         /\ callers[c].given = callers[d].given )
       => callers[c].outcome = callers[d].outcome

C11_Witness ==
  /\ Called
  /\ callers["s1"].pc = "done" /\ Observed("s1")
  /\ callers["s1"].outcome.kind = "solutions"
  /\ callers["s1"].outcome.solutions # <<>>
  /\ callers["s2"].pc = "checked" /\ Observed("s2")

(* C12: a call of solve_equation, returning or failing, leaves the         *)
(* registry (equations, names, expressions, variables and their order) and *)
(* the caller's mapping as they were; after any sequence of calls the      *)
(* registry lists the same equations in the same order.                    *)
C12_CallsLeaveRegistryAndInputs ==
  /\ registry = EQUATIONS
  /\ \A c \in Callers :
       callers[c].pc # "idle" => callers[c].inputs = callers[c].given

C12_Witness ==
  /\ registry = EQUATIONS
  /\ callers["s1"].pc = "done" /\ callers["s1"].outcome.kind = "error"
  /\ callers["s2"].pc = "done" /\ callers["s2"].outcome.kind = "solutions"
  /\ callers["s2"].inputs = callers["s2"].given
  /\ callers["s2"].inputs # <<>>

(* C13: registry well-formedness.  For every equation of the registry the  *)
(* symbols of its expression are exactly the keys of its variables.        *)
C13_RegistryWellFormed ==
  \A i \in DOMAIN registry :
    Symbols(registry[i].expression) = Keys(registry[i])

C13_Witness ==
  /\ Len(registry) = Len(EQUATIONS)
  /\ \E c \in Callers :
       /\ callers[c].pc = "parsed"
       /\ Symbols(callers[c].expression) = Keys(registry[callers[c].eq])
       /\ Cardinality(Keys(registry[callers[c].eq])) = Len(registry[callers[c].eq].variables)

====
